---- MODULE Spec2Model ----
(***************************************************************************)
(* Rank / tier computation, master-table join and tier-dominant scoring of *)
(* the counselling agent (src/db.py, src/ranking.py, src/scoring.py).      *)
(*                                                                         *)
(* A DataFrame is a sequence of records (one record per row, one field per *)
(* column).  Column names are shortened: "District ID" -> district,        *)
(* "Department ID" -> department, "Branch Code" -> branch, "College code"  *)
(* -> college, "Catogery OC Cutoff" -> cutoff.                             *)
(* Floating point values are kept exact: a weighted score is a fraction    *)
(* [num, den]; a value rounded to two decimals is an integer number of     *)
(* hundredths.                                                             *)
(***************************************************************************)
EXTENDS Integers, Sequences, FiniteSets, TLC

VARIABLES
    cutoff,          \* Cutoff.csv rows
    districts,       \* Districts.csv rows
    colleges,        \* Colleges-info.csv rows
    branches,        \* Branches.csv rows
    ranks,           \* the dict returned by compute_ranks_and_tiers
    master,          \* the DataFrame returned by build_master_table
    college_tiers,   \* the request: tier selections ...
    branch_tiers,
    district_tiers,
    weights,         \* ... and the four slider weights
    norm_weights,    \* the tuple returned by normalize_weights
    final_scores,    \* the Series returned by compute_final_scores
    scored,          \* the DataFrame returned by apply_tier_filtering_and_scoring
    pc               \* how far the pipeline has run

vars == <<cutoff, districts, colleges, branches, ranks, master, college_tiers,
          branch_tiers, district_tiers, weights, norm_weights, final_scores, scored,
          pc>>

----------------------------------------------------------------------------
(* Values *)

\* NaN in a numeric column (keys, ranks, scores are all >= 0 otherwise)
NULL == -1
\* NaN in an object column (names, tier labels)
NA == "NaN"
\* NaN where a weighted sum (a fraction) is expected
NaNScore == [num |-> NULL, den |-> 1]
\* a variable that holds no result yet
NONE == <<>>

ALL_TIERS == {"Top", "Best", "Next-Best", "Rest"}

TIER_SCORES == [t \in ALL_TIERS |->
    CASE t = "Top" -> 4 [] t = "Best" -> 3 [] t = "Next-Best" -> 2 [] t = "Rest" -> 1]

Categories == {"district", "department", "branch", "college"}

RankCol(cat) ==
    CASE cat = "district" -> "district_rank"
      [] cat = "department" -> "department_rank"
      [] cat = "branch" -> "branch_rank"
      [] cat = "college" -> "college_rank"

TierCol(cat) ==
    CASE cat = "district" -> "district_tier"
      [] cat = "department" -> "department_tier"
      [] cat = "branch" -> "branch_tier"
      [] cat = "college" -> "college_tier"

MaxCutoffCol(cat) ==
    CASE cat = "district" -> "district_max_cutoff"
      [] cat = "department" -> "department_max_cutoff"
      [] cat = "branch" -> "branch_max_cutoff"
      [] cat = "college" -> "college_max_cutoff"

RanksKey(cat) ==
    CASE cat = "district" -> "district_ranks"
      [] cat = "department" -> "department_ranks"
      [] cat = "branch" -> "branch_ranks"
      [] cat = "college" -> "college_ranks"

----------------------------------------------------------------------------
(* Helpers on sets and sequences *)

SetMax(S) == CHOOSE x \in S : \A y \in S : y <= x

SetMin(S) == CHOOSE x \in S : \A y \in S : x <= y

RECURSIVE SortedSeqOf(_)
\* the elements of a finite set of integers, ascending
SortedSeqOf(S) ==
    IF S = {} THEN <<>> ELSE <<SetMin(S)>> \o SortedSeqOf(S \ {SetMin(S)})

RECURSIVE Flatten(_)
\* the concatenation of a sequence of sequences
Flatten(ss) == IF ss = <<>> THEN <<>> ELSE Head(ss) \o Flatten(Tail(ss))

----------------------------------------------------------------------------
(* db.py: Rank & Tier Computer *)

\* percentile taken from a zero-based rank: (rank - 1) / max_rank
_tier_label_zero_based(rank, max_rank) ==
    IF 4 * (rank - 1) <= max_rank THEN "Top"
    ELSE IF 2 * (rank - 1) <= max_rank THEN "Best"
    ELSE IF 4 * (rank - 1) <= 3 * max_rank THEN "Next-Best"
    ELSE "Rest"

\* the quartile edges exclusive: < where the code has <=
_tier_label_exclusive(rank, max_rank) ==
    IF 4 * rank < max_rank THEN "Top"
    ELSE IF 2 * rank < max_rank THEN "Best"
    ELSE IF 4 * rank < 3 * max_rank THEN "Next-Best"
    ELSE "Rest"

\* percentile = rank / max_rank against 0.25, 0.50, 0.75: the thresholds are
\* binary fractions, so the float comparisons are these integer comparisons
_tier_label(rank, max_rank) ==
    IF 4 * rank <= max_rank THEN "Top"
    ELSE IF 2 * rank <= max_rank THEN "Best"
    ELSE IF 4 * rank <= 3 * max_rank THEN "Next-Best"
    ELSE "Rest"

\* cutoff.groupby(group_col)["Catogery OC Cutoff"].max(): one entry per key
\* present, rows with a NaN key dropped (groupby's dropna default)
GroupKeys(cut, cat) == {cut[i][cat] : i \in 1..Len(cut)} \ {NULL}

GroupMax(cut, cat, k) == SetMax({cut[i].cutoff : i \in {j \in 1..Len(cut) : cut[j][cat] = k}})

\* the same with method="min" (competition ranking): ties leave gaps
MinRankDesc(series, v) ==
    Cardinality({i \in 1..Len(series) : series[i] > v}) + 1

\* the same with ascending=True: rank 1 for the lowest value
DenseRankAsc(series, v) ==
    Cardinality({series[i] : i \in {j \in 1..Len(series) : series[j] < v}}) + 1

\* Series.rank(method="dense", ascending=False) of the value v of a Series:
\* one more than the number of distinct values that are larger
DenseRankDesc(series, v) ==
    Cardinality({series[i] : i \in {j \in 1..Len(series) : series[j] > v}}) + 1

_rank_and_tier(cut, cat) ==
    LET keys == SortedSeqOf(GroupKeys(cut, cat))
        max_cutoff == [i \in 1..Len(keys) |-> GroupMax(cut, cat, keys[i])]
        rank == [i \in 1..Len(keys) |-> DenseRankDesc(max_cutoff, max_cutoff[i])]
        max_rank == SetMax({rank[i] : i \in 1..Len(keys)})
    IN  [i \in 1..Len(keys) |->
            (cat :> keys[i]) @@ (MaxCutoffCol(cat) :> max_cutoff[i])
            @@ (RankCol(cat) :> rank[i])
            @@ (TierCol(cat) :> _tier_label(rank[i], max_rank))]

compute_ranks_and_tiers(cut) ==
    [district_ranks |-> _rank_and_tier(cut, "district"),
     department_ranks |-> _rank_and_tier(cut, "department"),
     branch_ranks |-> _rank_and_tier(cut, "branch"),
     college_ranks |-> _rank_and_tier(cut, "college")]

----------------------------------------------------------------------------
(* db.py: Master Table Builder *)

\* the columns a rank table adds, all NaN: what a left join leaves when no
\* row of the rank table matches
NullRank(cat) ==
    (MaxCutoffCol(cat) :> NULL) @@ (RankCol(cat) :> NULL) @@ (TierCol(cat) :> NA)

\* the same join with how="inner": a left row without a match is dropped
InnerMerge(left, right, key, nulls) ==
    Flatten([i \in 1..Len(left) |->
        LET m == SelectSeq(right, LAMBDA r : r[key] = left[i][key])
        IN  [j \in 1..Len(m) |-> left[i] @@ m[j]]])

\* left.merge(right, on=key, how="left"): every left row, in order, once per
\* matching right row (in right's order), or once with right's columns NaN
\* when nothing matches.  NaN keys match NaN keys.  A column both sides
\* carry keeps the left value (the suffixed right copy is dropped).
LeftMerge(left, right, key, nulls) ==
    Flatten([i \in 1..Len(left) |->
        LET m == SelectSeq(right, LAMBDA r : r[key] = left[i][key])
        IN  IF m = <<>> THEN <<left[i] @@ nulls>>
            ELSE [j \in 1..Len(m) |-> left[i] @@ m[j]]])

build_master_table(cut, dis, col, bra, rk) ==
    LET m1 == LeftMerge(cut, dis, "district", [District |-> NA])
        m2 == LeftMerge(m1, col, "college", [College_Name |-> NA])
        m3 == LeftMerge(m2, bra, "branch", [Branch_Name |-> NA, Department |-> NA])
        m4 == LeftMerge(m3, rk.district_ranks, "district", NullRank("district"))
        m5 == LeftMerge(m4, rk.department_ranks, "department", NullRank("department"))
        m6 == LeftMerge(m5, rk.branch_ranks, "branch", NullRank("branch"))
    IN  LeftMerge(m6, rk.college_ranks, "college", NullRank("college"))

----------------------------------------------------------------------------
(* ranking.py, scoring.py: Scoring Engine *)

\* the tier's score whether or not the tier is selected
tier_score_unfiltered(tier, selected_tiers) ==
    IF tier \in DOMAIN TIER_SCORES THEN TIER_SCORES[tier] ELSE 0

\* `tier in selected_tiers` is False for NaN; TIER_SCORES.get(tier, 0)
tier_score(tier, selected_tiers) ==
    IF tier \in selected_tiers
    THEN (IF tier \in DOMAIN TIER_SCORES THEN TIER_SCORES[tier] ELSE 0)
    ELSE 0

\* the division without the total == 0 branch: den = 0 stands for the
\* ZeroDivisionError the call then raises
normalize_weights_unguarded(w) ==
    [num |-> [c \in Categories |-> w[c]],
     den |-> w.district + w.department + w.branch + w.college]

\* the four normalized weights as fractions num[c] / den
normalize_weights(w) ==
    LET total == w.district + w.department + w.branch + w.college
    IN  IF total = 0
        THEN [num |-> [c \in Categories |-> 1], den |-> 4]
        ELSE [num |-> [c \in Categories |-> w[c]], den |-> total]

\* the inversion without the + 1: the worst rank scores 0
rank_to_score_off_by_one(rank, max_rank) == max_rank - rank

rank_to_score(rank, max_rank) == max_rank + 1 - rank

\* Series.max(): the largest value that is not NaN, NaN when there is none
ColMax(df, col) ==
    LET present == {df[i][col] : i \in 1..Len(df)} \ {NULL}
    IN  IF present = {} THEN NULL ELSE SetMax(present)

\* one entry per row: the weighted sum as a fraction, NaN as soon as
\* one of the row's four ranks is NaN (NaN propagates through + and *)
compute_final_scores(df, w) ==
    LET nw == normalize_weights(w)
        score(i, c) == rank_to_score(df[i][RankCol(c)], ColMax(df, RankCol(c)))
    IN  [i \in 1..Len(df) |->
            IF \E c \in Categories : df[i][RankCol(c)] = NULL
            THEN NaNScore
            ELSE [num |-> score(i, "district") * nw.num["district"]
                          + score(i, "department") * nw.num["department"]
                          + score(i, "branch") * nw.num["branch"]
                          + score(i, "college") * nw.num["college"],
                  den |-> nw.den]]

\* round-half-to-even of n / d, for n >= 0 and d > 0
RoundHalfEven(n, d) ==
    LET q == n \div d
        r == n % d
    IN  IF 2 * r < d THEN q
        ELSE IF 2 * r > d THEN q + 1
        ELSE q + (q % 2)

\* Series.round(2), in hundredths; NaN stays NaN
Round2(f) == IF f = NaNScore THEN NULL ELSE RoundHalfEven(100 * f.num, f.den)

\* the keys with final_score ahead of sum_of_tiers
SortByScoreFirst == <<"final_score", "sum_of_tiers", "cutoff", "college_rank">>

\* the columns and directions of the sort_values call
SortBy == <<"sum_of_tiers", "final_score", "cutoff", "college_rank">>

SortAscending == <<FALSE, FALSE, FALSE, TRUE>>

\* -1: a sorts before b on this key, 1: after, 0: tie.  NaN sorts last in
\* either direction (na_position="last") and ties with NaN.
CmpKey(a, b, asc) ==
    IF a = b THEN 0
    ELSE IF a = NULL THEN 1
    ELSE IF b = NULL THEN -1
    ELSE IF asc THEN (IF a < b THEN -1 ELSE 1)
    ELSE (IF a > b THEN -1 ELSE 1)

RECURSIVE CmpRows(_, _, _)
\* lexicographic comparison on the keys k, k+1, ...
CmpRows(x, y, k) ==
    IF k > Len(SortBy) THEN 0
    ELSE LET c == CmpKey(x[SortBy[k]], y[SortBy[k]], SortAscending[k])
         IN  IF c # 0 THEN c ELSE CmpRows(x, y, k + 1)

\* DataFrame.sort_values(by=[...], ascending=[...]).reset_index(drop=True):
\* with several keys pandas sorts stably (lexsort), so a row goes after the
\* rows that compare smaller and after the earlier rows that tie with it
sort_values(df) ==
    LET before(j, i) == \/ CmpRows(df[j], df[i], 1) < 0
                        \/ (CmpRows(df[j], df[i], 1) = 0 /\ j < i)
        pos(i) == Cardinality({j \in 1..Len(df) : before(j, i)}) + 1
    IN  [p \in 1..Len(df) |-> df[CHOOSE i \in 1..Len(df) : pos(i) = p]]

\* choose_order numbered from 0: range(len(result))
assign_choose_order_zero_based(sorted) ==
    [i \in 1..Len(sorted) |-> sorted[i] @@ [choose_order |-> i - 1]]

\* result["choose_order"] = range(1, len(result) + 1)
assign_choose_order(sorted) ==
    [i \in 1..Len(sorted) |-> sorted[i] @@ [choose_order |-> i]]

apply_tier_filtering_and_scoring(df, c_tiers, b_tiers, d_tiers, w) ==
    LET fs == compute_final_scores(df, w)
        result == [i \in 1..Len(df) |->
            LET cts == tier_score(df[i].college_tier, c_tiers)
                bts == tier_score(df[i].branch_tier, b_tiers)
                dts == tier_score(df[i].district_tier, d_tiers)
            IN  df[i] @@ [college_tier_score |-> cts,
                          branch_tier_score |-> bts,
                          district_tier_score |-> dts,
                          sum_of_tiers |-> cts + bts + dts,
                          final_score |-> Round2(fs[i])]]
    IN  assign_choose_order(sort_values(result))

----------------------------------------------------------------------------
(* Operations *)

\* app.py load_data / db.py init_db: ranks = compute_ranks_and_tiers(cutoff)
ComputeRanksAndTiers ==
    /\ pc = "loaded"
    /\ ranks' = compute_ranks_and_tiers(cutoff)
    /\ pc' = "ranked"
    /\ UNCHANGED <<cutoff, districts, colleges, branches, master, college_tiers,
                   branch_tiers, district_tiers, weights, norm_weights, final_scores,
                   scored>>

\* master = build_master_table(cutoff, districts, colleges, branches, ranks)
BuildMasterTable ==
    /\ pc = "ranked"
    /\ master' = build_master_table(cutoff, districts, colleges, branches, ranks)
    /\ pc' = "joined"
    /\ UNCHANGED <<cutoff, districts, colleges, branches, ranks, college_tiers,
                   branch_tiers, district_tiers, weights, norm_weights, final_scores,
                   scored>>

\* a call of compute_final_scores on the master table with the request's weights
ComputeFinalScores ==
    /\ pc = "joined"
    /\ final_scores' = compute_final_scores(master, weights)
    /\ pc' = "final_scores"
    /\ UNCHANGED <<cutoff, districts, colleges, branches, ranks, master, college_tiers,
                   branch_tiers, district_tiers, weights, norm_weights, scored>>

\* a call of normalize_weights with the request's weights
NormalizeWeights ==
    /\ pc = "request"
    /\ norm_weights' = normalize_weights(weights)
    /\ pc' = "normalized"
    /\ UNCHANGED <<cutoff, districts, colleges, branches, ranks, master, college_tiers,
                   branch_tiers, district_tiers, weights, final_scores, scored>>

\* scored = apply_tier_filtering_and_scoring(master, ...the request...)
ApplyTierFilteringAndScoring ==
    /\ pc = "joined"
    /\ scored' = apply_tier_filtering_and_scoring(master, college_tiers, branch_tiers,
                                                  district_tiers, weights)
    /\ pc' = "scored"
    /\ UNCHANGED <<cutoff, districts, colleges, branches, ranks, master, college_tiers,
                   branch_tiers, district_tiers, weights, norm_weights, final_scores>>

----------------------------------------------------------------------------
(* The whole pipeline, from the loaded tables (app.py load_data, then the  *)
(* scoring call with the sidebar's defaults)                               *)

\* bounds of the loaded dataset
MaxRecs == 4

NumEntities == 4

CutoffVals == {60, 70, 80, 90, 100}

\* a cutoff row of entity e: district e holds college e, the branches
\* alternate and belong to one department
CutoffRec(e, v) ==
    [district |-> e, college |-> e, branch |-> 1 + (e % 2), department |-> 1,
     cutoff |-> v]

\* a cutoff row whose Department ID cell is empty in the CSV
NoDeptRec == [CutoffRec(1, 100) EXCEPT !.department = NULL]

RECURSIVE EntityPicks(_, _)
\* the strictly increasing sequences of at most n entities >= lo
EntityPicks(n, lo) ==
    IF n = 0 THEN {<<>>}
    ELSE {<<>>} \cup UNION {{<<e>> \o s : s \in EntityPicks(n - 1, e + 1)} : e \in lo..NumEntities}

\* the datasets: at most MaxRecs rows; one row per chosen entity, in entity
\* order, after an optional row without department
CutoffTables ==
    UNION {UNION {{pre \o [i \in 1..Len(s) |-> CutoffRec(s[i], f[i])] :
                      f \in [1..Len(s) -> CutoffVals]} :
                  s \in EntityPicks(MaxRecs - Len(pre), 1)} :
           pre \in {<<>>, <<NoDeptRec>>}}

DistrictsTable == [e \in 1..NumEntities |-> [district |-> e, District |-> <<"district", e>>]]

CollegesTable ==
    [e \in 1..NumEntities |-> [college |-> e, College_Name |-> <<"college", e>>, district |-> e]]

BranchesTable ==
    [b \in 1..2 |-> [branch |-> b, Branch_Name |-> <<"branch", b>>,
                     Department |-> <<"department", 1>>, department |-> 1]]

DefaultWeights == [district |-> 25, department |-> 25, branch |-> 25, college |-> 25]

Init ==
    /\ cutoff \in CutoffTables
    /\ districts = DistrictsTable
    /\ colleges = CollegesTable
    /\ branches = BranchesTable
    /\ ranks = NONE
    /\ master = NONE
    /\ college_tiers = ALL_TIERS
    /\ branch_tiers = ALL_TIERS
    /\ district_tiers = ALL_TIERS
    /\ weights = DefaultWeights
    /\ norm_weights = NONE
    /\ final_scores = NONE
    /\ scored = NONE
    /\ pc = "loaded"

Next == ComputeRanksAndTiers \/ BuildMasterTable \/ ApplyTierFilteringAndScoring

Spec == Init /\ [][Next]_vars

----------------------------------------------------------------------------
(* build_master_table alone, on tables that need not be well-formed: a     *)
(* reference or rank table may lack a key or carry it twice                *)

MaxJoinRows == 2

JoinCutoffTables ==
    UNION {[1..n -> {CutoffRec(1, 100), CutoffRec(2, 90), NoDeptRec}] : n \in 0..MaxJoinRows}

\* a table as it is, without its last row, empty, or with its first row twice
TableVariants(t) ==
    {t, SubSeq(t, 1, Len(t) - 1), <<>>, <<t[1]>> \o t}

\* rank tables of this dataset, of a dataset that lacks its last row (a stale
\* snapshot), or with the district table's rows doubled
RankVariants(cut) ==
    LET fresh == compute_ranks_and_tiers(cut)
    IN  {fresh,
         compute_ranks_and_tiers(SubSeq(cut, 1, Len(cut) - 1)),
         [fresh EXCEPT !.district_ranks = @ \o @]}

InitJoin ==
    /\ cutoff \in JoinCutoffTables
    /\ districts \in TableVariants(SubSeq(DistrictsTable, 1, 2))
    /\ colleges \in TableVariants(SubSeq(CollegesTable, 1, 2))
    /\ branches \in TableVariants(BranchesTable)
    /\ ranks \in RankVariants(cutoff)
    /\ master = NONE
    /\ college_tiers = ALL_TIERS
    /\ branch_tiers = ALL_TIERS
    /\ district_tiers = ALL_TIERS
    /\ weights = DefaultWeights
    /\ norm_weights = NONE
    /\ final_scores = NONE
    /\ scored = NONE
    /\ pc = "ranked"

NextJoin == BuildMasterTable

SpecJoin == InitJoin /\ [][NextJoin]_vars

----------------------------------------------------------------------------
(* The scoring functions alone, on master rows and requests drawn from     *)
(* bounded sets                                                            *)

MaxRows == 3

\* the largest rank of each category in the snapshot the rows come from
SnapshotMaxRank == 10

RankVals == {1, 4, 7, 10}

\* the columns of a master row that scoring reads; the tier is the one
\* compute_ranks_and_tiers gave the rank, NaN rank and tier for an
\* unmatched join
ScoreRow(d, dep, b, c, v) ==
    LET tier(r) == IF r = NULL THEN NA ELSE _tier_label(r, SnapshotMaxRank)
    IN  [cutoff |-> v,
         district_rank |-> d, department_rank |-> dep, branch_rank |-> b,
         college_rank |-> c,
         district_tier |-> tier(d), department_tier |-> tier(dep),
         branch_tier |-> tier(b), college_tier |-> tier(c)]

\* rows for the tier scores: every tier and NaN in every category
TierRows ==
    {ScoreRow(r, 1, r, r, 100) : r \in RankVals \cup {NULL}}
    \cup {ScoreRow(1, 1, 4, 7, 100), ScoreRow(4, 1, 7, 10, 100), ScoreRow(10, 1, NULL, 1, 100)}

\* rows for the ordering: good and bad district and college, two cutoffs,
\* and rows without department or college rank
OrderRows ==
    {ScoreRow(d, 1, 4, c, v) : d \in {1, 10}, c \in {1, 10}, v \in {90, 100}}
    \cup {ScoreRow(1, NULL, 4, 1, 100), ScoreRow(1, 1, 4, NULL, 100)}

\* rows for the weighted sum: the same rank in every category
RankRows == {ScoreRow(r, r, r, r, 100) : r \in RankVals} \cup {ScoreRow(1, 4, 7, 10, 90)}

Selections == SUBSET ALL_TIERS

DepartmentOnly == [district |-> 0, department |-> 100, branch |-> 0, college |-> 0]

WeightChoices ==
    {DefaultWeights,
     [district |-> 0, department |-> 0, branch |-> 0, college |-> 0],
     DepartmentOnly,
     [district |-> 100, department |-> 0, branch |-> 0, college |-> 0],
     [district |-> 50, department |-> 25, branch |-> 0, college |-> 100]}

\* requests for the ordering: the defaults, selections that reward the worse
\* ranks, and weights and selections under which many rows tie
OrderRequests ==
    {[college_tiers |-> ALL_TIERS, branch_tiers |-> ALL_TIERS,
      district_tiers |-> ALL_TIERS, weights |-> DefaultWeights],
     [college_tiers |-> {"Rest"}, branch_tiers |-> ALL_TIERS,
      district_tiers |-> {"Rest"}, weights |-> DefaultWeights],
     [college_tiers |-> ALL_TIERS, branch_tiers |-> ALL_TIERS,
      district_tiers |-> ALL_TIERS, weights |-> DepartmentOnly],
     [college_tiers |-> ALL_TIERS, branch_tiers |-> {"Top"},
      district_tiers |-> {"Best"}, weights |-> DepartmentOnly]}

SeqsUpTo(S, n) == UNION {[1..k -> S] : k \in 0..n}

InitScore ==
    /\ cutoff = NONE
    /\ districts = NONE
    /\ colleges = NONE
    /\ branches = NONE
    /\ ranks = NONE
    /\ \/ /\ master \in [1..1 -> TierRows]
          /\ college_tiers \in Selections
          /\ branch_tiers \in Selections
          /\ district_tiers \in Selections
          /\ weights = DefaultWeights
       \/ /\ master \in SeqsUpTo(OrderRows, MaxRows)
          /\ \E r \in OrderRequests :
                 /\ college_tiers = r.college_tiers
                 /\ branch_tiers = r.branch_tiers
                 /\ district_tiers = r.district_tiers
                 /\ weights = r.weights
       \/ /\ master \in SeqsUpTo(RankRows, MaxRows)
          /\ college_tiers = ALL_TIERS
          /\ branch_tiers = ALL_TIERS
          /\ district_tiers = ALL_TIERS
          /\ weights \in WeightChoices
    /\ norm_weights = NONE
    /\ final_scores = NONE
    /\ scored = NONE
    /\ pc = "joined"

NextScore == ComputeFinalScores \/ ApplyTierFilteringAndScoring

SpecScore == InitScore /\ [][NextScore]_vars

----------------------------------------------------------------------------
(* Properties of the rank tables (checked under Spec)                      *)

\* the rank table of a category and its columns
RankTable(cat) == ranks[RanksKey(cat)]

MaxCutoffs(cat) == [i \in 1..Len(RankTable(cat)) |-> RankTable(cat)[i][MaxCutoffCol(cat)]]

Ranks(cat) == [i \in 1..Len(RankTable(cat)) |-> RankTable(cat)[i][RankCol(cat)]]

Tiers(cat) == [i \in 1..Len(RankTable(cat)) |-> RankTable(cat)[i][TierCol(cat)]]

Range(f) == {f[i] : i \in DOMAIN f}

\* C2: in every category the ranks are dense: the set of ranks is exactly
\* 1..(number of distinct max_cutoff values), equal max_cutoff means equal
\* rank, a larger max_cutoff means a smaller rank, and the highest
\* max_cutoff has rank 1, however many entities tie.
C2_DenseRanks ==
    pc # "loaded" =>
        \A cat \in Categories :
            LET mc == MaxCutoffs(cat)
                rk == Ranks(cat)
            IN  /\ Range(rk) = 1..Cardinality(Range(mc))
                /\ \A i, j \in DOMAIN rk :
                       /\ (mc[i] = mc[j]) <=> (rk[i] = rk[j])
                       /\ (mc[i] > mc[j]) => (rk[i] < rk[j])
                /\ \A i \in DOMAIN rk : (\A j \in DOMAIN rk : mc[j] <= mc[i]) => rk[i] = 1

\* C2 witness: a category where two entities tie and a later rank follows
\* the tie without a gap
C2_Witness ==
    /\ pc = "ranked"
    /\ \E cat \in Categories :
           \E i, j, k \in DOMAIN Ranks(cat) :
               /\ i # j
               /\ Ranks(cat)[i] = Ranks(cat)[j]
               /\ Ranks(cat)[k] = Ranks(cat)[i] + 1

\* a category whose entities all share one max_cutoff value
SingleValue(cat) == Cardinality(Range(MaxCutoffs(cat))) = 1

\* C3 as stated: a category with a single distinct max cutoff value has
\* max_rank = 1 and every entity gets rank 1 and tier "Top".
C3_SingleValueTop ==
    pc # "loaded" =>
        \A cat \in Categories :
            SingleValue(cat) => /\ Range(Ranks(cat)) = {1}
                                /\ Range(Tiers(cat)) = {"Top"}

\* C3 as amended: a category with a single distinct max cutoff value has
\* max_rank = 1 and every entity gets rank 1 and tier "Rest" (1 / 1 > 0.75).
C3_SingleValueRest ==
    pc # "loaded" =>
        \A cat \in Categories :
            SingleValue(cat) => /\ Range(Ranks(cat)) = {1}
                                /\ Range(Tiers(cat)) = {"Rest"}

\* C3 witness: several entities of a category sharing one max cutoff value
C3_Witness ==
    /\ pc = "ranked"
    /\ \E cat \in Categories : SingleValue(cat) /\ Len(RankTable(cat)) >= 3

\* the scenario of C4: four districts whose max cutoffs are 100, 100, 90, 80
FourDistricts ==
    /\ pc # "loaded"
    /\ Len(RankTable("district")) = 4
    /\ LET mc == MaxCutoffs("district")
       IN  /\ Cardinality({i \in DOMAIN mc : mc[i] = 100}) = 2
           /\ Cardinality({i \in DOMAIN mc : mc[i] = 90}) = 1
           /\ Cardinality({i \in DOMAIN mc : mc[i] = 80}) = 1

\* the rank and tier of every district whose max cutoff is v
DistrictsAt(v, rank, tier) ==
    \A i \in DOMAIN MaxCutoffs("district") :
        MaxCutoffs("district")[i] = v =>
            Ranks("district")[i] = rank /\ Tiers("district")[i] = tier

\* C4 as stated: max cutoffs [100, 100, 90, 80] get dense ranks [1, 1, 2, 3]
\* and tiers [Top, Top, Best, Next-Best].
C4_ScenarioAsStated ==
    FourDistricts => /\ DistrictsAt(100, 1, "Top")
                     /\ DistrictsAt(90, 2, "Best")
                     /\ DistrictsAt(80, 3, "Next-Best")

\* C4 as amended: max cutoffs [100, 100, 90, 80] get dense ranks [1, 1, 2, 3]
\* and tiers [Best, Best, Next-Best, Rest] (percentiles 1/3, 1/3, 2/3, 3/3).
C4_ScenarioTiers ==
    FourDistricts => /\ DistrictsAt(100, 1, "Best")
                     /\ DistrictsAt(90, 2, "Next-Best")
                     /\ DistrictsAt(80, 3, "Rest")

\* C4 witness: the scenario, with the two districts at 100 listed first
C4_Witness ==
    /\ pc = "ranked"
    /\ MaxCutoffs("district") = <<100, 100, 90, 80>>

\* C5: in a category with at least 4 distinct max cutoff values every entity
\* at rank 1 has tier "Top" and every entity at the largest rank has "Rest".
C5_TopAndRest ==
    pc # "loaded" =>
        \A cat \in Categories :
            Cardinality(Range(MaxCutoffs(cat))) >= 4 =>
                \A i \in DOMAIN Ranks(cat) :
                    /\ Ranks(cat)[i] = 1 => Tiers(cat)[i] = "Top"
                    /\ Ranks(cat)[i] = SetMax(Range(Ranks(cat))) => Tiers(cat)[i] = "Rest"

\* C5 witness: a category with exactly 4 distinct max cutoff values, where
\* rank 1 sits on the edge of the top quartile
C5_Witness ==
    /\ pc = "ranked"
    /\ \E cat \in Categories :
           /\ Cardinality(Range(MaxCutoffs(cat))) = 4
           /\ \E i, j \in DOMAIN Ranks(cat) :
                  /\ Ranks(cat)[i] = 1 /\ Tiers(cat)[i] = "Top"
                  /\ Ranks(cat)[j] = 4 /\ Tiers(cat)[j] = "Rest"

----------------------------------------------------------------------------
(* Properties of the scoring functions (checked under SpecScore)           *)

\* NaN is last whatever the direction
DescNaNLast(a, b) == b = NULL \/ (a # NULL /\ a >= b)

AscNaNLast(a, b) == b = NULL \/ (a # NULL /\ a <= b)

\* C1: in the output every row with a larger sum_of_tiers is before every
\* row with a smaller one, whatever their final_score; among equal
\* sum_of_tiers the order is final_score descending, then cutoff descending,
\* then college_rank ascending (a NaN key after the others).
C1_TierDominantOrder ==
    pc = "scored" =>
        \A i, j \in 1..Len(scored) :
            i < j =>
                LET x == scored[i]
                    y == scored[j]
                IN  /\ x.sum_of_tiers >= y.sum_of_tiers
                    /\ x.sum_of_tiers = y.sum_of_tiers =>
                           /\ DescNaNLast(x.final_score, y.final_score)
                           /\ x.final_score = y.final_score =>
                                  /\ DescNaNLast(x.cutoff, y.cutoff)
                                  /\ x.cutoff = y.cutoff =>
                                         AscNaNLast(x.college_rank, y.college_rank)

\* C1 witness: a row placed before a row with a larger final_score, because
\* its sum_of_tiers is larger
C1_Witness ==
    /\ pc = "scored"
    /\ \E i, j \in 1..Len(scored) :
           /\ i < j
           /\ scored[i].sum_of_tiers > scored[j].sum_of_tiers
           /\ scored[i].final_score # NULL
           /\ scored[i].final_score < scored[j].final_score

HasNullRank(row) == \E c \in Categories : row[RankCol(c)] = NULL

\* C6: rows with a NaN rank in some category come after all fully ranked
\* rows in the output order.
C6_NullRankRowsLast ==
    pc = "scored" =>
        \A i, j \in 1..Len(scored) :
            (i < j /\ HasNullRank(scored[i])) => HasNullRank(scored[j])

\* the base score of a tier, as the claim lists it
BaseScore(t) ==
    CASE t = "Top" -> 4 [] t = "Best" -> 3 [] t = "Next-Best" -> 2 [] t = "Rest" -> 1
      [] OTHER -> 0

ExpectedTierScore(t, selection) == IF t \in selection THEN BaseScore(t) ELSE 0

\* C7: each tier score is the base score when the row's tier is in the
\* selection and 0 otherwise; sum_of_tiers is their sum, lies in 0..12, and
\* is 0 exactly when none of the three tiers is in its selection.
C7_TierScores ==
    pc = "scored" =>
        \A i \in 1..Len(scored) :
            LET r == scored[i]
            IN  /\ r.college_tier_score = ExpectedTierScore(r.college_tier, college_tiers)
                /\ r.branch_tier_score = ExpectedTierScore(r.branch_tier, branch_tiers)
                /\ r.district_tier_score = ExpectedTierScore(r.district_tier, district_tiers)
                /\ r.sum_of_tiers = r.college_tier_score + r.branch_tier_score
                                    + r.district_tier_score
                /\ r.sum_of_tiers \in 0..12
                /\ (r.sum_of_tiers = 0) <=> /\ r.college_tier \notin college_tiers
                                           /\ r.branch_tier \notin branch_tiers
                                           /\ r.district_tier \notin district_tiers

\* C7 witness: a row with a NaN tier, a deselected tier and a selected one
C7_Witness ==
    /\ pc = "scored"
    /\ \E i \in 1..Len(scored) :
           /\ scored[i].branch_tier = NA
           /\ scored[i].college_tier = "Top" /\ "Top" \notin college_tiers
           /\ scored[i].district_tier = "Rest" /\ "Rest" \in district_tiers
           /\ scored[i].sum_of_tiers = 1

Restrict(r, cols) == [f \in cols |-> r[f]]

Count(seq, r) == Cardinality({i \in 1..Len(seq) : seq[i] = r})

\* the output without the columns scoring adds
InputColumns == [i \in 1..Len(scored) |-> Restrict(scored[i], DOMAIN master[1])]

\* C8: the output holds exactly the input rows (same multiset), choose_order
\* at position i is i, and sorting the output again by the same keys gives
\* the same sequence.
C8_PermutationAndOrder ==
    pc = "scored" =>
        /\ Len(scored) = Len(master)
        /\ \A r \in Range(master) \cup Range(InputColumns) :
               Count(InputColumns, r) = Count(master, r)
        /\ \A i \in 1..Len(scored) : scored[i].choose_order = i
        /\ sort_values(scored) = scored

\* C8 witness: three rows that the sort reorders, two of them different rows
\* that tie on all four keys
C8_Witness ==
    /\ pc = "scored"
    /\ Len(scored) = 3
    /\ InputColumns # master
    /\ \E i, j \in 1..Len(scored) :
           /\ i < j
           /\ CmpRows(scored[i], scored[j], 1) = 0
           /\ InputColumns[i] # InputColumns[j]

----------------------------------------------------------------------------
(* Properties of the join (checked under SpecJoin)                         *)

UniqueKeys(t, key) == \A i, j \in 1..Len(t) : t[i][key] = t[j][key] => i = j

HasKey(t, key, k) == \E i \in 1..Len(t) : t[i][key] = k

\* every reference table and every rank table carries a join key at most once
WellFormedKeys ==
    /\ UniqueKeys(districts, "district")
    /\ UniqueKeys(colleges, "college")
    /\ UniqueKeys(branches, "branch")
    /\ \A cat \in Categories : UniqueKeys(RankTable(cat), cat)

\* C9: when every reference and rank table carries a join key at most once,
\* the master table has exactly one row per cutoff record, in order, with
\* the record's own columns unchanged; a record whose key has no match in a
\* table is still there, with that table's name / rank / tier columns NaN.
C9_OneRowPerCutoffRecord ==
    (pc = "joined" /\ WellFormedKeys) =>
        /\ Len(master) = Len(cutoff)
        /\ \A i \in 1..Len(master) :
               /\ Restrict(master[i], DOMAIN cutoff[i]) = cutoff[i]
               /\ ~HasKey(districts, "district", cutoff[i].district) => master[i].District = NA
               /\ ~HasKey(colleges, "college", cutoff[i].college) => master[i].College_Name = NA
               /\ ~HasKey(branches, "branch", cutoff[i].branch) => master[i].Branch_Name = NA
               /\ \A cat \in Categories :
                      ~HasKey(RankTable(cat), cat, cutoff[i][cat]) =>
                          /\ master[i][RankCol(cat)] = NULL
                          /\ master[i][TierCol(cat)] = NA

\* C9 witness: two cutoff records joined against well-formed tables, one of
\* them without a district name and without a department rank
C9_Witness ==
    /\ pc = "joined"
    /\ WellFormedKeys
    /\ Len(cutoff) = 2
    /\ Len(master) = 2
    /\ \E i \in 1..Len(master) :
           /\ master[i].District = NA
           /\ master[i].department_rank = NULL
           /\ master[i].college_rank # NULL

----------------------------------------------------------------------------
(* Properties of the weighted sum (checked under SpecScore)                *)

\* the largest rank of a category over the rows to score
MaxRankOver(df, cat) == SetMax({df[i][RankCol(cat)] : i \in 1..Len(df)} \ {NULL})

TotalWeight == weights.district + weights.department + weights.branch + weights.college

\* the weighted sum of the claim for row i, times the total weight (times 4
\* with the equal weights that stand in for an all-zero request)
ClaimedSum(df, i) ==
    LET part(cat) == MaxRankOver(df, cat) + 1 - df[i][RankCol(cat)]
        w(cat) == IF TotalWeight = 0 THEN 1 ELSE weights[cat]
    IN  part("district") * w("district") + part("department") * w("department")
        + part("branch") * w("branch") + part("college") * w("college")

\* the scenario of C10: weights 25 each, max_rank 10 in every category
TenRanksEqualWeights(df) ==
    /\ weights = DefaultWeights
    /\ \A cat \in Categories :
           /\ \E i \in 1..Len(df) : df[i][RankCol(cat)] # NULL
           /\ MaxRankOver(df, cat) = 10

AllRanksOne(row) == \A cat \in Categories : row[RankCol(cat)] = 1

\* C10: for a row without NaN ranks the final score is the sum over the four
\* categories of (max rank over the scored rows + 1 - the row's rank) times
\* the normalized weight; with weights 25 each and max_rank 10 everywhere a
\* row ranked (1, 1, 1, 1) scores exactly 10, and 10.00 in the output.
C10_WeightedSum ==
    /\ pc = "final_scores" =>
           \A i \in 1..Len(master) :
               ~HasNullRank(master[i]) =>
                   /\ final_scores[i].den > 0
                   /\ final_scores[i].num * (IF TotalWeight = 0 THEN 4 ELSE TotalWeight)
                          = final_scores[i].den * ClaimedSum(master, i)
                   /\ (TenRanksEqualWeights(master) /\ AllRanksOne(master[i])) =>
                          final_scores[i].num = 10 * final_scores[i].den
    /\ pc = "scored" =>
           \A i \in 1..Len(scored) :
               (TenRanksEqualWeights(scored) /\ AllRanksOne(scored[i])) =>
                   scored[i].final_score = 1000

\* C10 witness: the scenario, scored by compute_final_scores
C10_Witness ==
    /\ pc = "final_scores"
    /\ TenRanksEqualWeights(master)
    /\ \E i \in 1..Len(master) :
           /\ AllRanksOne(master[i])
           /\ final_scores[i].num = 10 * final_scores[i].den

----------------------------------------------------------------------------
(* normalize_weights alone, on weight quadruples drawn from the sliders'   *)
(* range                                                                   *)

\* the largest value of a weight slider
SliderMax == 100

\* how many of the smallest and of the largest slider values are drawn
EdgeWeights == 2

\* slider values: the ends of the range and values in between
SliderVals ==
    (0..(EdgeWeights - 1)) \cup {25, 33, 50} \cup ((SliderMax - EdgeWeights + 1)..SliderMax)

InitWeights ==
    /\ cutoff = NONE
    /\ districts = NONE
    /\ colleges = NONE
    /\ branches = NONE
    /\ ranks = NONE
    /\ master = NONE
    /\ college_tiers = ALL_TIERS
    /\ branch_tiers = ALL_TIERS
    /\ district_tiers = ALL_TIERS
    /\ weights \in [Categories -> SliderVals]
    /\ norm_weights = NONE
    /\ final_scores = NONE
    /\ scored = NONE
    /\ pc = "request"

NextWeights == NormalizeWeights

SpecWeights == InitWeights /\ [][NextWeights]_vars

\* C11: for non-negative weights normalize_weights returns (never fails)
\* four non-negative values that sum to 1: each input divided by the total
\* when the total is positive, 0.25 each when all four inputs are 0.
C11_NormalizedWeights ==
    pc = "normalized" =>
        LET n == norm_weights
        IN  /\ n.den > 0
            /\ \A c \in Categories : n.num[c] >= 0
            /\ n.num["district"] + n.num["department"] + n.num["branch"]
               + n.num["college"] = n.den
            /\ TotalWeight > 0 =>
                   \A c \in Categories : n.num[c] * TotalWeight = weights[c] * n.den
            /\ TotalWeight = 0 => \A c \in Categories : 4 * n.num[c] = n.den

\* C11 witness: the all-zero request, normalized to 0.25 each
C11_Witness ==
    /\ pc = "normalized"
    /\ \A c \in Categories : weights[c] = 0
    /\ \A c \in Categories : 4 * norm_weights.num[c] = norm_weights.den
    /\ norm_weights.den > 0

====
